---- MODULE Spec2Model ----
(***************************************************************************)
(* goBloodyEll: the batch execution engine of internal/neo4jrunner.        *)
(* Run starts a fixed pool of workers and one producer goroutine; jobs     *)
(* travel over the unbuffered channel jobsCh, a failing job closes stopCh  *)
(* under FailFast, every received job is executed by execWithRetries and   *)
(* its result is stored in out[job.Index]; Run returns after wg.Wait().    *)
(*                                                                         *)
(* Grain of the actions.  Every action holds at most one operation on      *)
(* state that another goroutine can see (a channel operation, a close):    *)
(*  - a goroutine whose select finds no ready case parks ("parked"); a     *)
(*    close completes the select of every goroutine parked on the channel  *)
(*    at the moment of the close, as the Go runtime does, so a parked      *)
(*    goroutine is never a partner for a send or receive after the close;  *)
(*  - one call of exec with the tests that follow it (err == nil,          *)
(*    ctx.Err(), looksTransient) is one action; a context that becomes     *)
(*    done during the call is a context done before the call, which then   *)
(*    fails, or one done after a call that still returned its result;      *)
(*  - a worker's store into out, which no other goroutine reads before     *)
(*    Run returns, is taken with the return of execWithRetries and with    *)
(*    the stop() that follows it;                                          *)
(*  - a worker's deferred sess.Close and wg.Done are taken with the step   *)
(*    that ends its select.                                                *)
(*                                                                         *)
(* Around the engine: main's admission loop and merge (SpecMain), and the  *)
(* functions CanRunCypher (SpecCanRun), Order (SpecOrder, SpecOrderCat),   *)
(* ExecCypher (SpecExec), looksTransient (SpecTransient),                  *)
(* FilterCategoryStrict (SpecFilter) and writeSummarySheet (SpecSummary),  *)
(* each called on its own over bounded inputs.                             *)
(*                                                                         *)
(* The engine itself is also run with the coerced pool sizes               *)
(* (SpecParallel), under fair scheduling of its goroutines (SpecLive), and *)
(* with the call of exec and its return as two steps (SpecFine), where a   *)
(* context can become done while the call is running.                      *)
(***************************************************************************)
EXTENDS Integers, Sequences, FiniteSets, TLC

\* Bounds of the model: the pool (Spec) and one worker's attempt sequences
\* (SpecRetry).
MaxJobs == 2
MaxParallel == 2
MaxPoolRetries == 0
MaxRetries == 2

\* The longest query text given to CanRunCypher (SpecCanRun).
MaxTextLen == 5

\* The most queries of a run of main (SpecMain).
MaxQueries == 2

\* The longest query list given to Order (SpecOrder).
MaxOrderLen == 7

\* ExecCypher (SpecExec): the most lexemes of a query text, the largest row
\* limit and the most records a query matches.
MaxLexemes == 3
MaxLimit == 2
MaxMatches == 3

\* The most pieces of an error message given to looksTransient
\* (SpecTransient).
MaxMsgParts == 2

\* FilterCategoryStrict (SpecFilter): the longest query list and the most
\* spaces on either side of the category.
MaxFilterLen == 3
MaxPad == 1

\* The longest list of outputs given to writeSummarySheet (SpecSummary).
MaxSummaryLen == 3

VARIABLES
    jobs,       \* []QueryJob handed to Run (1-based sequence, Index is 0-based)
    opts,       \* RunnerOpts
    runPc,      \* position of Run: "init", "waiting" (wg.Wait), "returned"
    runCtx,     \* the run context ctx: "live" or "done"
    out,        \* out []QueryResult, indexed by job.Index
    stopCh,     \* "open" or "closed"
    stopOnce,   \* TRUE once stopOnce.Do has run its function
    jobsCh,     \* "open" or "closed"
    prodPc,     \* producer goroutine: "none", "select", "parked", "closing", "done"
    prodIdx,    \* 0-based position of the job the producer offers next
    wg,         \* the WaitGroup counter
    wpc,        \* worker goroutine: "none", "select", "parked", "exec", "backoff", "done"
                \* (and "running" in the finer grain of SpecFine)
    wjob,       \* Index of the job a worker holds, -1 when none
    attempt,    \* loop variable of execWithRetries
    lastErr,    \* lastErr of execWithRetries
    qctx,       \* per-job context of a worker: "none", "live", "expired"
    recvLog,    \* history: for each job Index the number of receives of it
    writeLog,   \* history: for each slot the IDs of the jobs stored into it
    hist,       \* history: for each job Index the results of its attempts
    sleeps,     \* history: for each job Index the backoff sleeps begun, in ms
    cancelled,  \* history: job Index -> its context was done when its attempts ended
    qs,         \* main: the ordered queries of the run (1-based sequence)
    presence,   \* main: schema.Presence, the label and relationship-type sets
    schemaSkip, \* main: the --schema-skip flag
    mainPc,     \* main: "none" (Run called directly), "admit", "run", "done"
    mainIdx,    \* main: loop variable i of the admission loop
    outs,       \* main: outs []report.Output, indexed by query position
    jobToQueryIdx, \* main: for each job (1-based) the position of its query
    call,       \* a call of a function on its own: its name and arguments
    ret         \* the value that call returned, with done = FALSE before it

mainVars == <<qs, presence, schemaSkip, mainPc, mainIdx, outs, jobToQueryIdx>>

callVars == <<call, ret>>

vars == <<jobs, opts, runPc, runCtx, out, stopCh, stopOnce, jobsCh, prodPc, prodIdx,
          wg, wpc, wjob, attempt, lastErr, qctx,
          recvLog, writeLog, hist, sleeps, cancelled, mainVars, callVars>>

Workers == 1..MaxParallel

-----------------------------------------------------------------------------
\* Values

NoErr == [kind |-> "nil", at |-> 0]

\* ctx.Err() of a done context.
CtxErr == [kind |-> "context", at |-> 0]

\* An error returned by the exec callback on attempt number a.
ExecErr(k, a) == [kind |-> k, at |-> a]

\* ResultSet{}: nil Columns and nil Rows.
ZeroResultSet == [Columns |-> 0, Rows |-> 0]

\* The ResultSet values a successful ExecCypher returns: no record at all
\* (empty Columns, empty Rows) or records.
ExecResultSets == {[Columns |-> 0, Rows |-> 0], [Columns |-> 1, Rows |-> 1]}

\* QueryResult{}.
ZeroQueryResult == [ResultSet |-> ZeroResultSet, Err |-> NoErr, Skipped |-> FALSE, SkipWhy |-> ""]

\* QueryResult{ResultSet: rs, Err: err}
QueryResult(rs, err) == [ResultSet |-> rs, Err |-> err, Skipped |-> FALSE, SkipWhy |-> ""]

\* The job list main builds: Index: len(jobs), so Index is the position.
QueryJob(i) == [Index |-> i, ID |-> <<"q", i>>, Cypher |-> <<"cypher", i>>]

JobList(n) == [k \in 1..n |-> QueryJob(k - 1)]

N == Len(jobs)

JobIdx == 0..(N - 1)

-----------------------------------------------------------------------------
\* Pure helpers

\* Faulty variant: every error is classified transient.
LooksTransientAlways(err) == TRUE

\* looksTransient
LooksTransient(err) == err.kind = "transient"

\* Faulty variant: the Parallel option taken as given.
CoerceParallelNone(p) == p

\* opts.Parallel < 1 => 1
CoerceParallel(p) == IF p < 1 THEN 1 ELSE p

\* opts.Retries < 0 => 0
CoerceRetries(r) == IF r < 0 THEN 0 ELSE r

\* Faulty variant: execWithRetries given the run context in place of the
\* job's, so that the job's deadline ends nothing.
CtxDoneRunOnly(w) == runCtx = "done"

\* Faulty variant: one deadline shared by the workers, so that the expiry of
\* any job's timer ends every job's context.
CtxDoneShared(w) == runCtx = "done" \/ \E v \in Workers : qctx[v] = "expired"

\* ctx.Err() != nil for the context a worker passes to execWithRetries.
CtxDone(w) == runCtx = "done" \/ qctx[w] = "expired"

\* The step of the backoff, in milliseconds.
BackoffUnit == 200

\* Faulty variant: the same sleep after every failed attempt.
BackoffSleepFlat(a) == BackoffUnit

\* sleep := time.Duration(200*(attempt+1)) * time.Millisecond, in
\* milliseconds, for the loop counter attempt, which starts at 0.
BackoffSleep(a) == BackoffUnit * (a + 1)

\* Faulty variant: the backoff written as a plain sleep, which only the
\* timer ends.
BackoffCasesSleep(w) == {"timer"}

\* The case that ends the backoff select of lines 129-134.  The worker is
\* parked on both channels and the first event completes its select: the
\* context's Done when the context is done, the timer otherwise.  A timer
\* that fired before the context was done is the timer step taken before
\* the step that ends the context.
BackoffCases(w) == IF CtxDone(w) THEN {"ctx"} ELSE {"timer"}

\* Faulty variant: the loop test allowing one attempt too many.
MoreAttemptsExtra(a, retries) == a <= retries + 1

\* Faulty variant: the loop test written attempt < retries.
MoreAttemptsStrict(a, retries) == a < retries

\* for attempt := 0; attempt <= retries; attempt++
MoreAttempts(a, retries) == a <= retries

\* What the exec callback can return: a session call on a context that is
\* already done fails; otherwise it succeeds or fails either way.
ExecOutcomes(done) == IF done THEN {"transient", "permanent"}
                      ELSE {"ok", "transient", "permanent"}

\* Faulty variant: the slot chosen by the worker's number instead of the job's Index.
SlotOfWorker(job, w) == w - 1

\* out[job.Index]
SlotOf(job, w) == job.Index

\* Faulty variant: the producer's loop steps over a job.
NextIdxSkip(i) == i + 2

\* The producer's range loop: the position after i.
NextIdx(i) == i + 1

\* Faulty variant: the producer ranges over the jobs from the last one.
OfferedReversed(i) == jobs[N - i]

\* The job the producer offers in pass i of `for _, job := range jobs`.
Offered(i) == jobs[i + 1]

\* Faulty variant: the producer sends without selecting on stopCh.
ProducerIgnoresStop == FALSE

\* case <-stopCh of the producer's select is ready.
ProducerSeesStop == stopCh = "closed"

\* case <-stopCh of a worker's select is ready.
WorkerSeesStop == stopCh = "closed"

\* close(ch): closing a closed channel panics.
CloseChan(ch) == IF ch = "open" THEN "closed" ELSE "panic"

\* Faulty variant: stop() closes stopCh without the sync.Once.
OnceDoneNever == FALSE

\* stopOnce.Do(f) skips f when the Once has run.
OnceDone == stopOnce

\* Faulty variant: with FailFast every stored result signals stop, a
\* successful one included.
ShouldStopOnResult(err) == opts.FailFast

\* Faulty variant: every failure signals stop, whatever FailFast is.
ShouldStopAlways(err) == err.kind # "nil"

\* err != nil && opts.FailFast
ShouldStop(err) == err.kind # "nil" /\ opts.FailFast

\* Faulty variant: the stop also ends the workers that are executing a job.
WakeOnStopAll(pc) == "done"

\* close(stopCh) completes the select of every goroutine parked on it, which
\* returns; a goroutine that is executing a job is not waiting on stopCh.
WakeOnStop(pc) == IF pc = "parked" THEN "done" ELSE pc

\* close(jobsCh) completes the select of every parked worker with !ok.
WakeOnClose(pc) == IF pc = "parked" THEN "done" ELSE pc

\* The deferred sess.Close(ctx) and wg.Done() of the workers that return in a
\* step from positions pcs to positions pcs2. They touch the worker's own
\* session and the WaitGroup only, so they are taken with the step that ends
\* the worker's select.
Exits(pcs, pcs2) == Cardinality({v \in Workers : pcs[v] # "done" /\ pcs2[v] = "done"})

\* Faulty variant: one session opened before the loop and captured by every
\* worker.
SessionOfShared(w) == 1

\* sess := driver.NewSession(...) at the head of the worker: a variable of
\* the goroutine, so each worker holds the session it opened itself.
\* Sessions are named by the worker that opened them.
SessionOf(w) == w

\* The workers Run has started.
Running == {w \in Workers : wpc[w] # "none"}

\* The sessions opened so far: NewSession is the first statement of a worker.
Sessions == {SessionOf(w) : w \in Running}

\* The deferred sess.Close(ctx) of a worker that has returned.
SessionClosed(s) == \E w \in Running : SessionOf(w) = s /\ wpc[w] = "done"

\* Faulty variant: Run waits for one worker only (wg.Add(1)).
WaitAny == wg < opts.Parallel

\* wg.Wait() returns.
WaitDone == wg = 0

-----------------------------------------------------------------------------
\* The admission planner: package schema, CanRunCypher.  A string is a
\* sequence of characters.

\* The characters of the query texts given to CanRunCypher: a bracket, a
\* colon, a separator, an upper-case and a lower-case letter.
Chars == {"[", ":", "(", "L", "r"}

\* The character class [A-Za-z0-9_], as far as the texts use it.
IdentChars == {"L", "I", "M", "T", "l", "i", "m", "t", "r", "x"}

\* strings.ToLower
ToLowerChar(c) ==
    CASE c = "L" -> "l" [] c = "I" -> "i" [] c = "M" -> "m" [] c = "T" -> "t"
      [] c = "E" -> "e" [] c = "O" -> "o" [] c = "F" -> "f"
      [] c = "S" -> "s" [] c = "U" -> "u" [] c = "C" -> "c" [] c = "R" -> "r"
      [] c = "A" -> "a" [] c = "D" -> "d" [] c = "N" -> "n"
      [] OTHER -> c

ToLower(s) == [k \in 1..Len(s) |-> ToLowerChar(s[k])]

\* The position after the longest run of identifier characters from p on:
\* the greedy group ([A-Za-z0-9_]+).
RECURSIVE IdentEnd(_, _)
IdentEnd(s, p) ==
    IF p <= Len(s) /\ s[p] \in IdentChars THEN IdentEnd(s, p + 1) ELSE p

HasPrefixAt(s, p, pre) ==
    /\ p + Len(pre) - 1 <= Len(s)
    /\ SubSeq(s, p, p + Len(pre) - 1) = pre

\* The literal prefixes of reLabel, `:([A-Za-z0-9_]+)`, and of reRel,
\* `\[:([A-Za-z0-9_]+)`.
reLabel == <<":">>

reRel == <<"[", ":">>

\* re.FindAllStringSubmatch(s, -1) from position p on, as the sequence of the
\* groups m[1]: leftmost matches, none overlapping.
RECURSIVE FindAllStringSubmatch(_, _, _)
FindAllStringSubmatch(pre, s, p) ==
    IF p > Len(s) THEN << >>
    ELSE LET b == p + Len(pre)
             e == IdentEnd(s, b) IN
         IF HasPrefixAt(s, p, pre) /\ e > b
         THEN <<SubSeq(s, b, e - 1)>> \o FindAllStringSubmatch(pre, s, e)
         ELSE FindAllStringSubmatch(pre, s, p + 1)

\* The body of either loop of CanRunCypher: the first match whose lower-case
\* form is not in the set, as a sequence of length 0 or 1.
RECURSIVE FirstMissing(_, _)
FirstMissing(ms, set) ==
    IF ms = << >> THEN << >>
    ELSE IF ToLower(Head(ms)) \notin set THEN <<Head(ms)>>
    ELSE FirstMissing(Tail(ms), set)

MissingLabel(m) == <<"missing label: ", m>>

MissingRel(m) == <<"missing relationship type: ", m>>

\* Faulty variant: the relationship types are looked up before the labels.
CanRunCypherRelsFirst(cypher, p) ==
    LET ml == FirstMissing(FindAllStringSubmatch(reLabel, cypher, 1), p.Labels)
        mr == FirstMissing(FindAllStringSubmatch(reRel, cypher, 1), p.Rels) IN
    IF mr # << >> THEN [ok |-> FALSE, why |-> MissingRel(mr[1])]
    ELSE IF ml # << >> THEN [ok |-> FALSE, why |-> MissingLabel(ml[1])]
    ELSE [ok |-> TRUE, why |-> << >>]

\* CanRunCypher(cypher, p): the label loop, then the relationship loop.
CanRunCypher(cypher, p) ==
    LET ml == FirstMissing(FindAllStringSubmatch(reLabel, cypher, 1), p.Labels)
        mr == FirstMissing(FindAllStringSubmatch(reRel, cypher, 1), p.Rels) IN
    IF ml # << >> THEN [ok |-> FALSE, why |-> MissingLabel(ml[1])]
    ELSE IF mr # << >> THEN [ok |-> FALSE, why |-> MissingRel(mr[1])]
    ELSE [ok |-> TRUE, why |-> << >>]

-----------------------------------------------------------------------------
\* The tab order: package queries, Order and catRank.

\* idx of Order: the rank of the four baseline queries.
OrderIdx == [id \in {"ad-all-users-samaccountname", "ad-all-computers-fqdn",
                     "ad-domain-admins", "ad-domain-controllers"} |->
               CASE id = "ad-all-users-samaccountname" -> 1
                 [] id = "ad-all-computers-fqdn" -> 2
                 [] id = "ad-domain-admins" -> 3
                 [] id = "ad-domain-controllers" -> 4]

\* Faulty variant: the category compared without strings.ToLower.
catRankExact(cat) ==
    CASE cat = "ad" -> 10 [] cat = "entraid" -> 20 [] cat = "info" -> 30
      [] OTHER -> 99

\* catRank(cat), with strings.ToLower(cat) as the cases it folds together.
catRank(cat) ==
    CASE cat \in {"AD", "ad"} -> 10
      [] cat \in {"EntraID", "entraid"} -> 20
      [] cat \in {"INFO", "info"} -> 30
      [] OTHER -> 99

\* Faulty variant: the comparison without the baseline ranks.
OrderLessByCategory(iq, jq) == catRank(iq.Category) < catRank(jq.Category)

\* The less function that Order gives to sort.SliceStable.
OrderLess(iq, jq) ==
    LET iok == iq.ID \in DOMAIN OrderIdx
        jok == jq.ID \in DOMAIN OrderIdx IN
    IF iok \/ jok
    THEN IF ~iok THEN FALSE
         ELSE IF ~jok THEN TRUE
         ELSE OrderIdx[iq.ID] < OrderIdx[jq.ID]
    ELSE catRank(iq.Category) < catRank(jq.Category)

\* sort.SliceStable on a slice of at most 20 elements is an insertion sort:
\* the new element moves left while it is less than its left neighbour.
RECURSIVE InsertStable(_, _)
InsertStable(sorted, x) ==
    IF sorted = << >> \/ ~OrderLess(x, sorted[Len(sorted)])
    THEN Append(sorted, x)
    ELSE Append(InsertStable(SubSeq(sorted, 1, Len(sorted) - 1), x),
                sorted[Len(sorted)])

RECURSIVE SliceStable(_, _)
SliceStable(in, k) ==
    IF k = 0 THEN << >> ELSE InsertStable(SliceStable(in, k - 1), in[k])

\* Order(in): a copy of in, sorted stably.
Order(in) == SliceStable(in, Len(in))

-----------------------------------------------------------------------------
\* The row limit: package neo4jrunner, ExecCypher.

LimitWord == <<"l", "i", "m", "i", "t">>

\* strings.Contains
Contains(s, sub) ==
    \E p \in 1..(Len(s) - Len(sub) + 1) : SubSeq(s, p, p + Len(sub) - 1) = sub

\* strings.TrimSpace
RECURSIVE TrimSpace(_)
TrimSpace(s) ==
    IF s = << >> THEN s
    ELSE IF Head(s) = " " THEN TrimSpace(Tail(s))
    ELSE IF s[Len(s)] = " " THEN TrimSpace(SubSeq(s, 1, Len(s) - 1))
    ELSE s

\* fmt.Sprintf("\nLIMIT %d", limit), the number as one element.
LimitClause(limit) == <<"\n", "L", "I", "M", "I", "T", " ", ToString(limit)>>

\* The statement cy that ExecCypher runs: lines 27-30.
StatementOf(cypher, limit) ==
    LET cy == TrimSpace(cypher) IN
    IF limit > 0 /\ ~Contains(ToLower(cy), LimitWord)
    THEN cy \o LimitClause(limit)
    ELSE cy

\* The records the server streams for statement cy: the matches of the
\* query, cut by the LIMIT that ExecCypher appended.
RecordsOf(cy, cypher, matches, limit) ==
    IF cy # TrimSpace(cypher) /\ limit < matches THEN limit ELSE matches

\* The loop `for res.Next(ctx)`: lines 39-53, by the number of rows.
RECURSIVE ReadRows(_, _, _)
ReadRows(rows, served, limit) ==
    IF served = 0 THEN rows
    ELSE IF limit > 0 /\ rows + 1 >= limit THEN rows + 1
    ELSE ReadRows(rows + 1, served - 1, limit)

-----------------------------------------------------------------------------
\* The classification of errors: package neo4jrunner, looksTransient (the
\* looksTransient of the legacy src/runner.go is the same function).  An
\* error is a record: neo4j tells whether errors.As finds a *neo4j.Neo4jError
\* in it, classification is that error's Classification(), msg is
\* err.Error().

TransientError == "TransientError"

\* The substrings of the fallback.
TransientSubstrings ==
    << <<"c", "o", "n", "n", "e", "c", "t", "i", "o", "n", " ", "r", "e", "f", "u", "s", "e", "d">>,
       <<"i", "/", "o", " ", "t", "i", "m", "e", "o", "u", "t">>,
       <<"t", "e", "m", "p", "o", "r", "a", "r", "y">>,
       <<"E", "O", "F">>,
       <<"b", "r", "o", "k", "e", "n", " ", "p", "i", "p", "e">>,
       <<"r", "e", "s", "e", "t", " ", "b", "y", " ", "p", "e", "e", "r">>,
       <<"S", "e", "r", "v", "i", "c", "e", "U", "n", "a", "v", "a", "i", "l", "a", "b", "l", "e">> >>

\* The pieces of the error messages, and those that are in the table.
MsgLexemes ==
    {<<"c", "o", "n", "n", "e", "c", "t", "i", "o", "n", " ", "r", "e", "f", "u", "s", "e", "d">>, <<"E", "O", "F">>, <<"e", "o", "f">>,
     <<"s", "y", "n", "t", "a", "x">>, <<" ">>, <<"t", "e", "m", "p">>}

TransientLexemes == {<<"c", "o", "n", "n", "e", "c", "t", "i", "o", "n", " ", "r", "e", "f", "u", "s", "e", "d">>, <<"E", "O", "F">>, <<"e", "o", "f">>}

\* The concatenation of a sequence of strings.
RECURSIVE Concat(_)
Concat(ls) == IF ls = << >> THEN << >> ELSE Head(ls) \o Concat(Tail(ls))

\* The fallback: strings.Contains(strings.ToLower(msg), strings.ToLower(sub))
\* for some sub of the table.
MatchesTable(msg) ==
    \E k \in 1..Len(TransientSubstrings) :
      Contains(ToLower(msg), ToLower(TransientSubstrings[k]))

\* Faulty variant: the substring table consulted for every error, also for
\* one the backend classified.
looksTransientByMessage(err) ==
    \/ err.neo4j /\ err.classification = TransientError
    \/ MatchesTable(err.msg)

looksTransient(err) ==
    IF err.neo4j
    THEN err.classification = TransientError
    ELSE MatchesTable(err.msg)

-----------------------------------------------------------------------------
\* The category filter: package queries, FilterCategoryStrict.  Here a
\* category is a sequence of characters.

\* Faulty variant: the comparison without case folding.
EqualFoldExact(s, t) == s = t

\* strings.EqualFold on letters of the Latin alphabet.
EqualFold(s, t) ==
    /\ Len(s) = Len(t)
    /\ \A k \in 1..Len(s) : ToLowerChar(s[k]) = ToLowerChar(t[k])

AllCategory == <<"a", "l", "l">>

\* allowed := map[string]struct{}{"ad": {}, "entraid": {}, "info": {}}
AllowedCategories == {<<"a", "d">>, <<"e", "n", "t", "r", "a", "i", "d">>, <<"i", "n", "f", "o">>}

\* fmt.Errorf("invalid --category %q (expected: all|AD|EntraID|INFO)", category)
InvalidCategory(category) == <<"invalid --category ", category>>

\* The loop over in: the queries with strings.EqualFold(q.Category, category).
RECURSIVE SelectCategory(_, _)
SelectCategory(in, category) ==
    IF in = << >> THEN << >>
    ELSE IF EqualFold(Head(in).Category, category)
         THEN <<Head(in)>> \o SelectCategory(Tail(in), category)
         ELSE SelectCategory(Tail(in), category)

\* FilterCategoryStrict(in, category): the list returned, nil when there is
\* none, and the error, << >> for nil.
FilterCategoryStrict(in, category) ==
    LET c == TrimSpace(category) IN
    IF c = << >> \/ EqualFold(c, AllCategory)
    THEN [out |-> in, isNil |-> FALSE, err |-> << >>]
    ELSE IF ToLower(c) \notin AllowedCategories
    THEN [out |-> << >>, isNil |-> TRUE, err |-> InvalidCategory(c)]
    ELSE [out |-> SelectCategory(in, c), isNil |-> FALSE, err |-> << >>]

-----------------------------------------------------------------------------
\* The state when Run is called with a job list of a length in ns, Parallel
\* in ps and Retries in rs.
InitWith(ns, ps, rs) ==
    /\ \E n \in ns : jobs = JobList(n)
    /\ opts \in [Parallel : ps, Retries : rs,
                 FailFast : BOOLEAN, PerQueryTimeout : {0, 1}]
    /\ runPc = "init"
    /\ runCtx = "live"
    /\ out = << >>
    /\ stopCh = "open"
    /\ stopOnce = FALSE
    /\ jobsCh = "open"
    /\ prodPc = "none"
    /\ prodIdx = 0
    /\ wg = 0
    /\ wpc = [w \in Workers |-> "none"]
    /\ wjob = [w \in Workers |-> -1]
    /\ attempt = [w \in Workers |-> 0]
    /\ lastErr = [w \in Workers |-> NoErr]
    /\ qctx = [w \in Workers |-> "none"]
    /\ recvLog = << >>
    /\ writeLog = << >>
    /\ hist = << >>
    /\ sleeps = << >>
    /\ cancelled = << >>

\* Faulty variant: Run started in a goroutine before the admission loop.
RunCallableEarly == mainPc \in {"none", "admit", "run"}

\* The call of Run is the statement after main's admission loop
\* (main.go:265); a caller other than main calls it at any time.
RunCallable == mainPc \in {"none", "run"}

\* Run up to wg.Wait(): coercions, out, channels, the workers and the producer.
RunStart ==
    /\ runPc = "init"
    /\ RunCallable
    /\ opts' = [opts EXCEPT !.Parallel = CoerceParallel(opts.Parallel),
                            !.Retries = CoerceRetries(opts.Retries)]
    /\ out' = [i \in JobIdx |-> ZeroQueryResult]
    /\ wg' = opts'.Parallel
    /\ wpc' = [w \in Workers |-> IF w <= opts'.Parallel THEN "select" ELSE "none"]
    /\ prodPc' = IF N > 0 THEN "select" ELSE "closing"
    /\ runPc' = "waiting"
    /\ recvLog' = [i \in JobIdx |-> 0]
    /\ writeLog' = [i \in JobIdx |-> << >>]
    /\ hist' = [i \in JobIdx |-> << >>]
    /\ sleeps' = [i \in JobIdx |-> << >>]
    /\ cancelled' = [i \in JobIdx |-> FALSE]
    /\ UNCHANGED <<jobs, runCtx, stopCh, stopOnce, jobsCh, prodIdx, wjob, attempt,
                   lastErr, qctx>>
    /\ UNCHANGED <<mainVars, callVars>>

\* The worker's state after `case job, ok := <-jobsCh` with ok: lines 76-83.
Receive(w, job) ==
    /\ wjob' = [wjob EXCEPT ![w] = job.Index]
    /\ attempt' = [attempt EXCEPT ![w] = 0]
    /\ lastErr' = [lastErr EXCEPT ![w] = NoErr]
    /\ qctx' = [qctx EXCEPT ![w] = IF opts.PerQueryTimeout > 0 THEN "live" ELSE "none"]
    /\ recvLog' = [recvLog EXCEPT ![job.Index] = @ + 1]

\* The producer after its send was taken.
Sent == /\ prodIdx' = NextIdx(prodIdx)
        /\ prodPc' = IF NextIdx(prodIdx) < N THEN "select" ELSE "closing"

\* The worker evaluates its select.
WorkerSelect(w) ==
    /\ wpc[w] = "select"
    /\ \/ /\ WorkerSeesStop
          /\ wpc' = [wpc EXCEPT ![w] = "done"]
          /\ UNCHANGED <<prodPc, prodIdx, wjob, attempt, lastErr, qctx, recvLog>>
       \/ /\ jobsCh = "closed"
          /\ wpc' = [wpc EXCEPT ![w] = "done"]
          /\ UNCHANGED <<prodPc, prodIdx, wjob, attempt, lastErr, qctx, recvLog>>
       \/ /\ prodPc = "parked"
          /\ Receive(w, Offered(prodIdx))
          /\ Sent
          /\ wpc' = [wpc EXCEPT ![w] = "exec"]
       \/ /\ ~WorkerSeesStop /\ jobsCh = "open" /\ prodPc # "parked"
          /\ wpc' = [wpc EXCEPT ![w] = "parked"]
          /\ UNCHANGED <<prodPc, prodIdx, wjob, attempt, lastErr, qctx, recvLog>>
    /\ wg' = wg - Exits(wpc, wpc')
    /\ UNCHANGED <<jobs, opts, runPc, runCtx, out, stopCh, stopOnce, jobsCh,
                   writeLog, hist, sleeps, cancelled>>
    /\ UNCHANGED <<mainVars, callVars>>

\* The producer evaluates its select.
ProducerSelect ==
    /\ prodPc = "select"
    /\ \/ /\ ProducerSeesStop
          /\ prodPc' = "closing"
          /\ UNCHANGED <<prodIdx, wpc, wjob, attempt, lastErr, qctx, recvLog>>
       \/ \E w \in Workers :
            /\ wpc[w] = "parked"
            /\ Receive(w, Offered(prodIdx))
            /\ Sent
            /\ wpc' = [wpc EXCEPT ![w] = "exec"]
       \/ /\ ~ProducerSeesStop /\ \A w \in Workers : wpc[w] # "parked"
          /\ prodPc' = "parked"
          /\ UNCHANGED <<prodIdx, wpc, wjob, attempt, lastErr, qctx, recvLog>>
    /\ UNCHANGED <<jobs, opts, runPc, runCtx, out, stopCh, stopOnce, jobsCh, wg,
                   writeLog, hist, sleeps, cancelled>>
    /\ UNCHANGED <<mainVars, callVars>>

\* defer close(jobsCh): every parked worker receives !ok.
ProducerClose ==
    /\ prodPc = "closing"
    /\ jobsCh' = "closed"
    /\ prodPc' = "done"
    /\ wpc' = [w \in Workers |-> WakeOnClose(wpc[w])]
    /\ wg' = wg - Exits(wpc, wpc')
    /\ UNCHANGED <<jobs, opts, runPc, runCtx, out, stopCh, stopOnce, prodIdx,
                   wjob, attempt, lastErr, qctx,
                   recvLog, writeLog, hist, sleeps, cancelled>>
    /\ UNCHANGED <<mainVars, callVars>>

\* cancel(); out[job.Index] = QueryResult{ResultSet: rs, Err: err}; then
\* if err != nil && opts.FailFast { stop() }, with stop() the once-guarded
\* close(stopCh); the worker is back at its select.
Store(w, rs, err) ==
    LET job == jobs[wjob[w] + 1]
        slot == SlotOf(job, w) IN
    /\ out' = [out EXCEPT ![slot] = QueryResult(rs, err)]
    /\ writeLog' = [writeLog EXCEPT ![slot] = Append(@, job.ID)]
    /\ cancelled' = [cancelled EXCEPT ![job.Index] = CtxDone(w)]
    /\ wjob' = [wjob EXCEPT ![w] = -1]
    /\ attempt' = [attempt EXCEPT ![w] = 0]
    /\ lastErr' = [lastErr EXCEPT ![w] = NoErr]
    /\ qctx' = [qctx EXCEPT ![w] = "none"]
    /\ IF ShouldStop(err) /\ ~OnceDone
       THEN /\ stopOnce' = TRUE
            /\ stopCh' = CloseChan(stopCh)
            /\ wpc' = [v \in Workers |-> IF v = w THEN "select"
                                          ELSE IF wpc[v] = "none" THEN "none"
                                          ELSE WakeOnStop(wpc[v])]
            /\ prodPc' = IF prodPc = "parked" THEN "closing" ELSE prodPc
       ELSE /\ wpc' = [wpc EXCEPT ![w] = "select"]
            /\ UNCHANGED <<stopOnce, stopCh, prodPc>>
    /\ wg' = wg - Exits(wpc, wpc')

\* Faulty variant: no test of ctx.Err() after a failed attempt.
AfterFailureNoCtxTest(w, err) ==
    IF ~LooksTransient(err) THEN [to |-> "return", err |-> err]
    ELSE [to |-> "backoff", err |-> NoErr]

\* Faulty variant: the classification tested before ctx.Err(), so that an
\* attempt interrupted by its deadline returns the backend's error.
AfterFailureBackendFirst(w, err) ==
    IF ~LooksTransient(err) THEN [to |-> "return", err |-> err]
    ELSE IF CtxDone(w) THEN [to |-> "return", err |-> CtxErr]
    ELSE [to |-> "backoff", err |-> NoErr]

\* The result of execWithRetries after a failed attempt with error err:
\* ctx.Err() first, then the classification, else the backoff timer.
AfterFailure(w, err) ==
    IF CtxDone(w) THEN [to |-> "return", err |-> CtxErr]
    ELSE IF ~LooksTransient(err) THEN [to |-> "return", err |-> err]
    ELSE [to |-> "backoff", err |-> NoErr]

\* One pass of the loop body of execWithRetries up to the backoff select:
\* rs, err := exec(ctx, sess, cypher, limit), lines 115-128. When
\* execWithRetries returns here, the worker stores the result.
ExecReturns(w) ==
    /\ \E o \in ExecOutcomes(CtxDone(w)) :
         /\ hist' = [hist EXCEPT ![wjob[w]] = Append(@, o)]
         /\ IF o = "ok"
            THEN /\ \E rs \in ExecResultSets : Store(w, rs, NoErr)
                 /\ UNCHANGED sleeps
            ELSE LET err == ExecErr(o, attempt[w])
                     a == AfterFailure(w, err) IN
                 IF a.to = "return"
                 THEN /\ Store(w, ZeroResultSet, a.err)
                      /\ UNCHANGED sleeps
                 ELSE /\ lastErr' = [lastErr EXCEPT ![w] = err]
                      /\ wpc' = [wpc EXCEPT ![w] = "backoff"]
                      /\ sleeps' = [sleeps EXCEPT ![wjob[w]] = Append(@, BackoffSleep(attempt[w]))]
                      /\ UNCHANGED <<out, writeLog, wjob, attempt, qctx, stopOnce,
                                     stopCh, prodPc, cancelled, wg>>
    /\ UNCHANGED <<jobs, opts, runPc, runCtx, jobsCh, prodIdx, recvLog>>
    /\ UNCHANGED <<mainVars, callVars>>

\* The call of exec and what follows its return, as one step of the worker.
WorkerExec(w) == wpc[w] = "exec" /\ ExecReturns(w)

\* The finer grain, in which a deadline can elapse between the loop test
\* and the call: the worker calls exec(ctx, sess, cypher, limit), line 115,
\* and is inside the call ("running") until it returns.
ExecCall(w) ==
    /\ wpc[w] = "exec"
    /\ wpc' = [wpc EXCEPT ![w] = "running"]
    /\ UNCHANGED <<jobs, opts, runPc, runCtx, out, stopCh, stopOnce, jobsCh, prodPc,
                   prodIdx, wg, wjob, attempt, lastErr, qctx,
                   recvLog, writeLog, hist, sleeps, cancelled>>
    /\ UNCHANGED <<mainVars, callVars>>

\* exec returns and the loop body goes on from line 116.
ExecReturn(w) == wpc[w] = "running" /\ ExecReturns(w)

\* case <-t.C of the backoff select, attempt++ and the loop test; after the
\* loop execWithRetries returns lastErr and the worker stores it.
BackoffTimer(w) ==
    /\ wpc[w] = "backoff"
    /\ "timer" \in BackoffCases(w)
    /\ IF MoreAttempts(attempt[w] + 1, opts.Retries)
       THEN /\ attempt' = [attempt EXCEPT ![w] = @ + 1]
            /\ wpc' = [wpc EXCEPT ![w] = "exec"]
            /\ UNCHANGED <<out, writeLog, wjob, lastErr, qctx, stopOnce, stopCh, prodPc,
                           cancelled, wg>>
       ELSE Store(w, ZeroResultSet, lastErr[w])
    /\ UNCHANGED <<jobs, opts, runPc, runCtx, jobsCh, prodIdx,
                   recvLog, hist, sleeps>>
    /\ UNCHANGED <<mainVars, callVars>>

\* case <-ctx.Done() of the backoff select: return ResultSet{}, ctx.Err().
BackoffCancel(w) ==
    /\ wpc[w] = "backoff"
    /\ "ctx" \in BackoffCases(w)
    /\ Store(w, ZeroResultSet, CtxErr)
    /\ UNCHANGED <<jobs, opts, runPc, runCtx, jobsCh, prodIdx,
                   recvLog, hist, sleeps>>
    /\ UNCHANGED <<mainVars, callVars>>

\* wg.Wait() returns; return out.
RunReturn ==
    /\ runPc = "waiting"
    /\ WaitDone
    /\ runPc' = "returned"
    /\ UNCHANGED <<jobs, opts, runCtx, out, stopCh, stopOnce, jobsCh, prodPc, prodIdx,
                   wg, wpc, wjob, attempt, lastErr, qctx,
                   recvLog, writeLog, hist, sleeps, cancelled>>
    /\ UNCHANGED <<mainVars, callVars>>

\* The overall deadline of the run context elapses.
RunDeadline ==
    /\ runPc = "waiting"
    /\ runCtx = "live"
    /\ runCtx' = "done"
    /\ UNCHANGED cancelled
    /\ UNCHANGED <<jobs, opts, runPc, out, stopCh, stopOnce, jobsCh, prodPc, prodIdx,
                   wg, wpc, wjob, attempt, lastErr, qctx,
                   recvLog, writeLog, hist, sleeps>>
    /\ UNCHANGED <<mainVars, callVars>>

\* The deadline of context.WithTimeout(ctx, opts.PerQueryTimeout) elapses.
JobTimeout(w) ==
    /\ qctx[w] = "live"
    /\ qctx' = [qctx EXCEPT ![w] = "expired"]
    /\ UNCHANGED cancelled
    /\ UNCHANGED <<jobs, opts, runPc, runCtx, out, stopCh, stopOnce, jobsCh, prodPc,
                   prodIdx, wg, wpc, wjob, attempt, lastErr,
                   recvLog, writeLog, hist, sleeps>>
    /\ UNCHANGED <<mainVars, callVars>>

-----------------------------------------------------------------------------
\* main: the admission loop before Run and the merge after it
\* (cmd/goBloodyEll/main.go), and the calls of single functions.

\* The variables of Run other than its job list.
runVars == <<opts, runPc, runCtx, out, stopCh, stopOnce, jobsCh, prodPc, prodIdx,
             wg, wpc, wjob, attempt, lastErr, qctx,
             recvLog, writeLog, hist, sleeps, cancelled>>

\* queries.Query, by its ID and Cypher; the zero values of Query and of
\* report.Output (the empty string is the empty sequence).
Query(i, text) == [ID |-> <<"q", i>>, Cypher |-> text]

QueryList(texts) == [k \in 1..Len(texts) |-> Query(k - 1, texts[k])]

ZeroQuery == [ID |-> << >>, Cypher |-> << >>]

ZeroOutput == [Query |-> ZeroQuery, Skipped |-> FALSE, SkipWhy |-> << >>,
               Result |-> ZeroResultSet, Error |-> << >>]

\* report.Output{Query: q, Skipped: true, SkipWhy: why}
SkippedOutput(q, why) == [ZeroOutput EXCEPT !.Query = q, !.Skipped = TRUE, !.SkipWhy = why]

\* r.Err.Error()
ErrorText(err) == <<err.kind, err.at>>

\* o := report.Output{Query: qs[i], Result: r.ResultSet};
\* if r.Err != nil { o.Error = r.Err.Error() }
MergedOutput(q, r) ==
    [ZeroOutput EXCEPT !.Query = q, !.Result = r.ResultSet,
                       !.Error = IF r.Err.kind # "nil" THEN ErrorText(r.Err) ELSE << >>]

\* neo4jrunner.QueryJob{Index: len(jobs), ID: q.ID, ..., Cypher: q.Cypher}
MainJob(q) == [Index |-> Len(jobs), ID |-> q.ID, Cypher |-> q.Cypher]

\* Faulty variant: the result of job j is merged at position j.
MergeSlotDirect(j) == j

\* i := jobToQueryIdx[j]
MergeSlot(j) == jobToQueryIdx[j + 1]

\* The merge loop `for j, r := range results` from job j on.
RECURSIVE MergeFrom(_, _)
MergeFrom(o, j) ==
    IF j >= N THEN o
    ELSE LET i == MergeSlot(j) IN
         MergeFrom([o EXCEPT ![i] = MergedOutput(qs[i + 1], out[j])], j + 1)

\* One pass of `for i, q := range qs`, or its end, after which Run is called.
MainAdmit ==
    /\ mainPc = "admit"
    /\ IF mainIdx < Len(qs)
       THEN LET q == qs[mainIdx + 1]
                v == CanRunCypher(q.Cypher, presence) IN
            /\ IF schemaSkip /\ ~v.ok
               THEN /\ outs' = [outs EXCEPT ![mainIdx] = SkippedOutput(q, v.why)]
                    /\ UNCHANGED <<jobs, jobToQueryIdx>>
               ELSE /\ jobs' = Append(jobs, MainJob(q))
                    /\ jobToQueryIdx' = Append(jobToQueryIdx, mainIdx)
                    /\ UNCHANGED outs
            /\ mainIdx' = mainIdx + 1
            /\ UNCHANGED mainPc
       ELSE /\ mainPc' = "run"
            /\ UNCHANGED <<mainIdx, outs, jobs, jobToQueryIdx>>
    /\ UNCHANGED <<qs, presence, schemaSkip, runVars, callVars>>

\* The merge of the results of Run into outs, once Run has returned.
MainMerge ==
    /\ mainPc = "run"
    /\ runPc = "returned"
    /\ outs' = MergeFrom(outs, 0)
    /\ mainPc' = "done"
    /\ UNCHANGED <<qs, presence, schemaSkip, mainIdx, jobToQueryIdx, jobs, runVars,
                   callVars>>

-----------------------------------------------------------------------------
\* The summary sheet: package report, writeSummarySheet.  Of the sheet, the
\* status column and the totals row.

\* Faulty variant: the error tested before the skip mark.
StatusOfErrorFirst(o) ==
    IF o.Error # << >> THEN "error"
    ELSE IF o.Skipped THEN "skipped"
    ELSE IF o.Result.Rows = 0 THEN "empty"
    ELSE "ok"

\* The if chain of the loop body: rows := len(o.Result.Rows), then
\* o.Skipped, o.Error != "", rows == 0, else.
StatusOf(o) ==
    IF o.Skipped THEN "skipped"
    ELSE IF o.Error # << >> THEN "error"
    ELSE IF o.Result.Rows = 0 THEN "empty"
    ELSE "ok"

\* ok, errc, skipped, empty := 0, 0, 0, 0
ZeroCounts == [ok |-> 0, error |-> 0, skipped |-> 0, empty |-> 0]

\* The counter that the branch of status st increments.
Count(c, st) ==
    CASE st = "skipped" -> [c EXCEPT !.skipped = @ + 1]
      [] st = "error" -> [c EXCEPT !.error = @ + 1]
      [] st = "empty" -> [c EXCEPT !.empty = @ + 1]
      [] st = "ok" -> [c EXCEPT !.ok = @ + 1]

\* The loop over outs: the counters after the first k outputs.
RECURSIVE Tally(_, _)
Tally(os, k) == IF k = 0 THEN ZeroCounts ELSE Count(Tally(os, k - 1), StatusOf(os[k]))

\* writeSummarySheet(f, sheet, outs): the status cells, row by row, and the
\* totals row with total = len(outs).
writeSummarySheet(os) ==
    [status |-> [k \in 1..Len(os) |-> StatusOf(os[k])],
     counts |-> Tally(os, Len(os)),
     total |-> Len(os)]

\* A call of CanRunCypher on its own.
CallCanRunCypher ==
    /\ call.fn = "CanRunCypher"
    /\ ~ret.done
    /\ LET v == CanRunCypher(call.cypher, call.p) IN
         ret' = [done |-> TRUE, ok |-> v.ok, why |-> v.why]
    /\ UNCHANGED <<call, jobs, runVars, mainVars>>

\* A call of Order on its own.
CallOrder ==
    /\ call.fn = "Order"
    /\ ~ret.done
    /\ ret' = [done |-> TRUE, out |-> Order(call.in)]
    /\ UNCHANGED <<call, jobs, runVars, mainVars>>

\* A call of ExecCypher on its own, against a server on which the statement
\* without an appended LIMIT matches call.matches records.
CallExecCypher ==
    /\ call.fn = "ExecCypher"
    /\ ~ret.done
    /\ LET cy == StatementOf(call.cypher, call.limit)
           served == RecordsOf(cy, call.cypher, call.matches, call.limit) IN
         ret' = [done |-> TRUE, sent |-> cy,
                 rows |-> ReadRows(0, served, call.limit)]
    /\ UNCHANGED <<call, jobs, runVars, mainVars>>

\* A call of looksTransient on its own.
CallLooksTransient ==
    /\ call.fn = "looksTransient"
    /\ ~ret.done
    /\ ret' = [done |-> TRUE, transient |-> looksTransient(call.err)]
    /\ UNCHANGED <<call, jobs, runVars, mainVars>>

\* A call of FilterCategoryStrict on its own.
CallFilterCategoryStrict ==
    /\ call.fn = "FilterCategoryStrict"
    /\ ~ret.done
    /\ LET r == FilterCategoryStrict(call.in, call.category) IN
         ret' = [done |-> TRUE, out |-> r.out, isNil |-> r.isNil, err |-> r.err]
    /\ UNCHANGED <<call, jobs, runVars, mainVars>>

\* A call of writeSummarySheet on its own.
CallWriteSummarySheet ==
    /\ call.fn = "writeSummarySheet"
    /\ ~ret.done
    /\ LET r == writeSummarySheet(call.outs) IN
         ret' = [done |-> TRUE, status |-> r.status, counts |-> r.counts,
                 total |-> r.total]
    /\ UNCHANGED <<call, jobs, runVars, mainVars>>

-----------------------------------------------------------------------------
\* Properties

Last(h) == h[Len(h)]

Started == runPc # "init"

Returned == runPc = "returned"

\* The slot of job Index i was stored once, from job i.
StoredOnce(i) == writeLog[i] = <<jobs[i + 1].ID>>

\* The attempts of job i all failed with a transient error.
AllTransient(i) == \A k \in 1..Len(hist[i]) : hist[i][k] = "transient"

\* out[i] is what the attempt sequence of job i ended in.
OutcomeOfJob(i) ==
    /\ hist[i] # << >>
    /\ out[i].Err.kind = "nil" <=> Last(hist[i]) = "ok"
    /\ out[i].Err.kind \in {"transient", "permanent"} =>
         out[i].Err = ExecErr(Last(hist[i]), Len(hist[i]) - 1)
    /\ out[i].Err.kind = "context" => cancelled[i]

\* C1: when Run has returned, out has one entry per job and every stored
\* entry i was stored from the job whose Index is i and holds the outcome of
\* that job's attempts, whatever the order in which the workers finished.
C1_OrderInvariant ==
    Returned =>
      /\ DOMAIN out = JobIdx
      /\ \A i \in JobIdx :
           /\ \A k \in 1..Len(writeLog[i]) : writeLog[i][k] = jobs[i + 1].ID
           /\ writeLog[i] # << >> => OutcomeOfJob(i)

\* Two workers, two jobs, both stored, one failed and one succeeded.
C1_Witness ==
    /\ Returned /\ N = 2 /\ opts.Parallel = 2
    /\ StoredOnce(0) /\ StoredOnce(1)
    /\ out[0].Err.kind = "permanent" /\ out[1].Err.kind = "nil"

\* C2: no job is ever received twice and no slot is ever stored more often
\* than its job was received; when Run has returned and the stop was never
\* signalled, every job was received exactly once and its slot was stored
\* exactly once, by the worker that held that job.
C2_ExactlyOnce ==
    Started =>
      /\ \A i \in JobIdx : recvLog[i] <= 1 /\ Len(writeLog[i]) <= recvLog[i]
      /\ (Returned /\ stopCh = "open") =>
           \A i \in JobIdx : recvLog[i] = 1 /\ StoredOnce(i)

C2_Witness ==
    /\ Returned /\ stopCh = "open" /\ N = 2 /\ opts.Parallel = 2
    /\ \A i \in JobIdx : recvLog[i] = 1 /\ StoredOnce(i)

\* C3: once stopCh is closed, a job that no worker has received is never
\* received and never executed in any later step.
C3_FailFastGating ==
    [][stopCh = "closed" =>
         \A i \in JobIdx : recvLog[i] = 0 => (recvLog'[i] = 0 /\ hist'[i] = << >>)]_vars

\* The stop was signalled while a job was still waiting in the producer, and
\* Run returned without that job ever being received.
C3_Witness ==
    /\ Returned /\ stopCh = "closed" /\ opts.Parallel = 2
    /\ \E i \in JobIdx : recvLog[i] = 0 /\ hist[i] = << >>

\* C4: a worker that holds a job keeps executing it, also after stopCh is
\* closed, until it stores the outcome; when Run has returned, every job that
\* was received has its slot stored once with the outcome its attempts ended in.
C4_InFlightCompletes ==
    Started =>
      /\ \A w \in Workers : wjob[w] # -1 => wpc[w] \in {"exec", "backoff"}
      /\ Returned =>
           \A i \in JobIdx : recvLog[i] >= 1 => (StoredOnce(i) /\ OutcomeOfJob(i))

\* The stop is signalled while another worker is in the backoff of its job.
C4_Witness ==
    /\ stopCh = "closed"
    /\ \E w \in Workers : wpc[w] = "backoff" /\ wjob[w] # -1

\* C5: under FailFast, when Run has returned, the entry of a job that was
\* never received is marked skipped or carries a cancellation error.
C5_CancellationSkip ==
    (Returned /\ opts.FailFast) =>
      \A i \in JobIdx :
        recvLog[i] = 0 => (out[i].Skipped \/ out[i].Err.kind = "context")

\* C6: when Run has returned, every entry is either marked skipped and its job
\* never executed, or not marked skipped and its job was received once and
\* executed, with a success entry only after a successful last attempt.
C6_OutcomeInvariant ==
    Returned =>
      \A i \in JobIdx :
        \/ out[i].Skipped /\ hist[i] = << >>
        \/ ~out[i].Skipped /\ recvLog[i] = 1 /\ OutcomeOfJob(i)

\* C7: when Run has returned no worker is executing a job or in backoff, every
\* received job has its slot stored, and out does not change any more.
C7_ReturnAfterWorkers ==
    /\ [](Returned =>
            /\ \A w \in Workers : wpc[w] \in {"none", "done"} /\ wjob[w] = -1
            /\ \A i \in JobIdx : Len(writeLog[i]) = recvLog[i])
    /\ [][Returned => out' = out]_vars

C7_Witness ==
    /\ Returned /\ opts.Parallel = 2 /\ N = 2
    /\ \A w \in Workers : wpc[w] = "done"
    /\ \A i \in JobIdx : StoredOnce(i)

\* C8: for a job whose context was not done when its attempts ended: if the
\* last attempt succeeded, at most Retries transient failures came before it
\* and the result is success; if every attempt failed with a transient error,
\* all Retries + 1 attempts were made and the result is the error of the last
\* attempt, never success.
C8_RetryBound ==
    Started =>
      \A i \in JobIdx :
        (writeLog[i] # << >> /\ ~cancelled[i]) =>
          /\ (hist[i] # << >> /\ Last(hist[i]) = "ok") =>
               /\ Len(hist[i]) <= opts.Retries + 1
               /\ \A k \in 1..(Len(hist[i]) - 1) : hist[i][k] = "transient"
               /\ out[i].Err = NoErr
          /\ AllTransient(i) =>
               /\ Len(hist[i]) = opts.Retries + 1
               /\ out[i].Err = ExecErr("transient", opts.Retries)

\* Retries = 1: one job fails once and then succeeds, the other fails twice.
C8_Witness ==
    /\ Started /\ opts.Retries = 1 /\ N = 2
    /\ writeLog[0] # << >> /\ ~cancelled[0]
    /\ hist[0] = <<"transient", "ok">> /\ out[0].Err = NoErr
    /\ writeLog[1] # << >> /\ ~cancelled[1]
    /\ hist[1] = <<"transient", "transient">> /\ out[1].Err = ExecErr("transient", 1)

\* C9 as stated: an attempt that fails with a non-transient error is the last
\* attempt, no backoff follows it, and the error returned is that error.
C9_PermanentReturned ==
    Started =>
      \A i \in JobIdx : \A k \in 1..Len(hist[i]) :
        hist[i][k] = "permanent" =>
          /\ k = Len(hist[i])
          /\ writeLog[i] # << >>
          /\ Len(sleeps[i]) = k - 1
          /\ out[i].Err = ExecErr("permanent", k - 1)

\* C9 amended: an attempt that fails with a non-transient error is the last
\* attempt and no backoff follows it; the error returned is that error, unless
\* the job's context is done when the attempt returns, and then it is the
\* context's error.
C9_NoRetryOnPermanent ==
    Started =>
      \A i \in JobIdx : \A k \in 1..Len(hist[i]) :
        hist[i][k] = "permanent" =>
          /\ k = Len(hist[i])
          /\ writeLog[i] # << >>
          /\ Len(sleeps[i]) = k - 1
          /\ out[i].Err = IF cancelled[i] THEN CtxErr ELSE ExecErr("permanent", k - 1)

\* Retries = 2 and the first attempt fails with a non-transient error.
C9_Witness ==
    /\ Started /\ opts.Retries = 2
    /\ hist[0] = <<"permanent">> /\ out[0].Err = ExecErr("permanent", 0)
    /\ Len(sleeps[0]) = 0

\* C10: when all Retries + 1 attempts of a job were made and each failed with
\* a transient error while the job's context was still live (so that a
\* cancellation, if any, fires after the final attempt), the stored error is
\* the error of the last attempt.
C10_ExhaustionReturnsLast ==
    Started =>
      \A i \in JobIdx :
        ( /\ writeLog[i] # << >>
          /\ AllTransient(i)
          /\ Len(hist[i]) = opts.Retries + 1
          /\ Len(sleeps[i]) = Len(hist[i]) ) =>
          out[i].Err = ExecErr("transient", opts.Retries)

\* C11: the expiry of one job's per-job deadline changes that job's context
\* only: the run context and every other worker's context and position are
\* left as they were; a context error is stored only for a job whose own
\* context (the run context or its own deadline) is done, and a job whose
\* execution succeeded is stored with a nil error.
C11_TimeoutIsolation ==
    [][ /\ \A w \in Workers :
             (qctx[w] = "live" /\ qctx'[w] = "expired") =>
               /\ runCtx' = runCtx
               /\ stopCh' = stopCh
               /\ \A v \in Workers \ {w} :
                    qctx'[v] = qctx[v] /\ wpc'[v] = wpc[v] /\ wjob'[v] = wjob[v]
        /\ \A i \in JobIdx :
             (Started /\ out'[i] # out[i]) =>
               /\ out'[i].Err.kind = "context" =>
                    \E w \in Workers :
                      wjob[w] = i /\ (runCtx = "done" \/ qctx[w] = "expired")
               /\ Last(hist'[i]) = "ok" => out'[i].Err = NoErr ]_vars

\* One job's deadline has expired while a sibling is executing under its own
\* live deadline and the run context is live.
C11_Witness ==
    /\ runCtx = "live"
    /\ \E w \in Workers, v \in Workers :
         /\ w # v
         /\ qctx[w] = "expired" /\ wpc[w] \in {"exec", "backoff"}
         /\ qctx[v] = "live" /\ wpc[v] = "exec"

\* C12: once the run deadline has elapsed, every result stored from then on
\* carries the context's error, and when Run has returned every job that was
\* never dispatched carries it too: no job that was pending or in flight at
\* the deadline ends with a nil error, with or without FailFast.
C12_RunCancellation ==
    /\ [](( Returned /\ runCtx = "done") =>
            \A i \in JobIdx : recvLog[i] = 0 => out[i].Err.kind = "context")
    /\ [][ (Started /\ runCtx = "done") =>
             \A i \in JobIdx :
               out'[i] # out[i] => out'[i].Err.kind = "context" ]_vars

\* C13: without FailFast the stop signal is never raised, and when Run has
\* returned every job was dispatched once and executed, and each slot holds
\* the outcome of its own job's attempts, whatever the other jobs did.
C13_FailureIsolation ==
    (Started /\ ~opts.FailFast) =>
      /\ stopCh = "open"
      /\ ~stopOnce
      /\ Returned =>
           \A i \in JobIdx :
             recvLog[i] = 1 /\ StoredOnce(i) /\ OutcomeOfJob(i)

\* Without FailFast Run has returned with a failed first job and a second
\* job that succeeded.
C13_Witness ==
    /\ Returned
    /\ ~opts.FailFast
    /\ N = 2
    /\ out[0].Err.kind \in {"transient", "permanent"}
    /\ out[1].Err = NoErr /\ Last(hist[1]) = "ok"

\* C20: a job whose attempts ended by exhaustion (Retries + 1 attempts, each
\* failed with a transient error) slept one backoff fewer than it made
\* attempts: no backoff follows the final attempt, and none at all when
\* Retries is 0.
C20_BackoffBetweenAttempts ==
    Started =>
      \A i \in JobIdx :
        ( /\ writeLog[i] # << >>
          /\ AllTransient(i)
          /\ Len(hist[i]) = opts.Retries + 1 ) =>
          Len(sleeps[i]) = Len(hist[i]) - 1

\* The references of a query text as the planner's contract classes them, by
\* the position of their colon: a relationship-type reference is a colon
\* that follows an opening bracket, a label reference is any other colon;
\* either is followed by an identifier.
TokenAt(s, p) == SubSeq(s, p + 1, IdentEnd(s, p + 1) - 1)

RelRefs(s) ==
    {p \in 2..Len(s) : s[p] = ":" /\ s[p - 1] = "[" /\ IdentEnd(s, p + 1) > p + 1}

LabelRefs(s) ==
    {p \in 1..Len(s) : s[p] = ":" /\ IdentEnd(s, p + 1) > p + 1} \ RelRefs(s)

MinOf(S) == CHOOSE x \in S : \A y \in S : x <= y

\* The positions of the references of class refs whose name is not in set.
AbsentIn(s, refs, set) == {p \in refs : ToLower(TokenAt(s, p)) \notin set}

CanRunReturned == call.fn = "CanRunCypher" /\ ret.done

\* C15: when every label reference of the text is in the schema's labels and
\* every relationship-type reference is in its relationship types,
\* CanRunCypher returns runnable with an empty reason: a relationship type
\* is looked up among the relationship types, not among the labels.
C15_AdmitsResolvable ==
    CanRunReturned =>
      (( /\ AbsentIn(call.cypher, LabelRefs(call.cypher), call.p.Labels) = {}
        /\ AbsentIn(call.cypher, RelRefs(call.cypher), call.p.Rels) = {} ) =>
        (ret.ok /\ ret.why = << >>))

Admitted(i) == mainPc # "none" /\ i < mainIdx

\* C14: with schema skipping on, a query whose text has a label reference
\* absent from the schema is marked skipped with a reason that names an
\* absent reference of its text, no QueryJob is created for it, and no worker
\* ever receives it.
C14_AbsentLabelSkipped ==
    \A i \in 0..(Len(qs) - 1) :
      LET s == qs[i + 1].Cypher
          al == AbsentIn(s, LabelRefs(s), presence.Labels)
          ar == AbsentIn(s, RelRefs(s), presence.Rels) IN
      (schemaSkip /\ Admitted(i) /\ al # {}) =>
        /\ outs[i].Skipped
        /\ outs[i].SkipWhy \in {MissingLabel(TokenAt(s, p)) : p \in al}
                                 \cup {MissingRel(TokenAt(s, p)) : p \in ar}
        /\ \A j \in 1..Len(jobs) : jobs[j].ID # qs[i + 1].ID
        /\ Started => \A j \in JobIdx : writeLog[j] # <<qs[i + 1].ID>>

\* C17: after the merge outs has one entry per query, entry i carries query
\* i, and it is either the skipped entry with the planner's reason or the
\* result that Run returned for the job created from query i.
C17_Aggregation ==
    mainPc = "done" =>
      /\ DOMAIN outs = 0..(Len(qs) - 1)
      /\ \A i \in 0..(Len(qs) - 1) :
           LET q == qs[i + 1]
               v == CanRunCypher(q.Cypher, presence) IN
           /\ outs[i].Query = q
           /\ IF schemaSkip /\ ~v.ok
              THEN outs[i] = SkippedOutput(q, v.why)
              ELSE \E j \in JobIdx :
                     /\ jobs[j + 1].ID = q.ID
                     /\ writeLog[j] \in {<< >>, <<q.ID>>}
                     /\ outs[i] = MergedOutput(q, out[j])

\* The first query was skipped and the second ran and returned a row.
C17_Witness ==
    /\ mainPc = "done"
    /\ Len(qs) = 2
    /\ outs[0].Skipped
    /\ ~outs[1].Skipped /\ outs[1].Result.Rows = 1 /\ outs[1].Error = << >>

\* The IDs of a query list, in order.
IDsOf(s) == [k \in 1..Len(s) |-> s[k].ID]

Baseline == <<"ad-all-users-samaccountname", "ad-all-computers-fqdn",
              "ad-domain-admins", "ad-domain-controllers">>

OrderReturned == call.fn = "Order" /\ ret.done

HasBaseline(s) == \A b \in 1..4 : \E k \in 1..Len(s) : s[k].ID = Baseline[b]

\* C18: for an input that holds the four baseline queries, the output of
\* Order begins with them, in the order all users, all computers, domain
\* admins, domain controllers.
C18_BaselineFirst ==
    (OrderReturned /\ HasBaseline(call.in)) =>
      SubSeq(IDsOf(ret.out), 1, 4) = Baseline

\* Order was given the four baseline queries in another order, behind a
\* query of another category.
C18_Witness ==
    /\ OrderReturned
    /\ HasBaseline(call.in)
    /\ Len(call.in) = 5
    /\ call.in[1].ID = "x"
    /\ call.in[2].ID = "ad-domain-controllers"
    /\ SubSeq(IDsOf(ret.out), 1, 4) = Baseline

ExecReturned == call.fn = "ExecCypher" /\ ret.done

\* The text has a LIMIT clause: the word limit, in any case, that is not
\* part of a longer identifier.
HasLimitClause(s) ==
    \E p \in 1..(Len(s) - 4) :
      /\ ToLower(SubSeq(s, p, p + 4)) = LimitWord
      /\ p = 1 \/ s[p - 1] \notin IdentChars
      /\ p + 5 > Len(s) \/ s[p + 5] \notin IdentChars

\* C19: for limit > 0 ExecCypher returns at most limit rows and runs the
\* text with a LIMIT clause appended exactly when the text has none; for
\* limit = 0 it runs the text as it is (surrounding white space aside) and
\* returns every row.
C19_RowLimit ==
    ExecReturned =>
      LET cy == TrimSpace(call.cypher) IN
      /\ call.limit > 0 =>
           /\ ret.rows <= call.limit
           /\ IF HasLimitClause(call.cypher)
              THEN ret.sent = cy
              ELSE ret.sent = cy \o LimitClause(call.limit)
      /\ call.limit = 0 =>
           /\ ret.sent = cy
           /\ ret.rows = call.matches

\* The context of the job that worker w holds is done.
OwnCtxDone(w) == runCtx = "done" \/ qctx[w] = "expired"

\* C21: a worker whose context is done while it sleeps in backoff leaves the
\* backoff by returning the context's error: the step that ends its sleep
\* stores that error for its job, and the job gets no further execution
\* attempt.
C21_InterruptibleBackoff ==
    [][ \A w \in Workers :
          (wpc[w] = "backoff" /\ OwnCtxDone(w) /\ wpc'[w] # "backoff") =>
            /\ out'[wjob[w]].Err = CtxErr
            /\ writeLog'[wjob[w]] # << >>
            /\ hist'[wjob[w]] = hist[wjob[w]] ]_vars

\* A job made one attempt of several allowed, was interrupted in its first
\* backoff and ended with the context's error.
C21_Witness ==
    /\ Started
    /\ opts.Retries >= 1
    /\ \E i \in JobIdx :
         /\ hist[i] = <<"transient">>
         /\ Len(sleeps[i]) = 1
         /\ writeLog[i] # << >>
         /\ out[i].Err = CtxErr

\* C22: once the run deadline has elapsed no job is taken from the queue:
\* no worker passes from its select to the first execution call of a job
\* that was not dispatched when the deadline elapsed.
C22_NoDispatchAfterDeadline ==
    [][ (Started /\ runCtx = "done") =>
          /\ recvLog' = recvLog
          /\ \A w \in Workers :
               wpc[w] \in {"select", "parked"} => wpc'[w] # "exec" ]_vars

\* C23: a negative Retries option becomes 0 when Run starts, and from then
\* on a job never has more than Retries + 1 execution attempts, and a job
\* whose execWithRetries has returned has at least one, whatever the
\* attempts returned and whenever a context ended.
C23_AttemptBound ==
    /\ [](Started =>
            /\ opts.Retries >= 0
            /\ \A i \in JobIdx :
                 /\ Len(hist[i]) <= opts.Retries + 1
                 /\ writeLog[i] # << >> => Len(hist[i]) >= 1)
    /\ [][ (runPc = "init" /\ runPc' # "init") =>
             opts'.Retries = (IF opts.Retries < 0 THEN 0 ELSE opts.Retries) ]_vars

\* Run has returned; one job used every allowed attempt, the other was cut
\* short by the deadline after its first.
C23_Witness ==
    /\ Returned
    /\ opts.Retries = MaxRetries
    /\ Len(hist[0]) = MaxRetries + 1
    /\ Len(hist[1]) = 1
    /\ cancelled[1]

\* C24: the stop signal has been raised exactly when FailFast is set and
\* some job's stored result, the one execWithRetries returned after its
\* retries, has a non-nil error; a job whose failed attempts were followed
\* by a successful one stores a nil error and so never raises it.
C24_FailFastTrigger ==
    Started =>
      /\ stopCh = "closed" <=>
           (opts.FailFast /\ \E i \in JobIdx :
                               writeLog[i] # << >> /\ out[i].Err.kind # "nil")
      /\ stopOnce <=> stopCh = "closed"
      /\ \A i \in JobIdx :
           (writeLog[i] # << >> /\ Len(hist[i]) > 0 /\ Last(hist[i]) = "ok") =>
             out[i].Err = NoErr

\* With FailFast the first job recovered on its second attempt without the
\* stop being raised, so the second job was dispatched; its failure raised it.
C24_Witness ==
    /\ Started
    /\ opts.FailFast
    /\ hist[0] = <<"transient", "ok">>
    /\ writeLog[0] # << >> /\ out[0].Err = NoErr
    /\ recvLog[1] = 1
    /\ writeLog[1] # << >> /\ out[1].Err.kind # "nil"
    /\ stopCh = "closed"

\* The jobs in flight: received by a worker and not yet written to their slot.
InFlight == {i \in JobIdx : recvLog[i] > 0 /\ writeLog[i] = << >>}

\* C25: at every moment of a run at most max(1, Parallel) jobs are in
\* flight; Run replaces a Parallel option below 1 by 1 and starts exactly
\* that many workers, and without a stop signal every job is still executed.
C25_BoundedParallelism ==
    /\ [](Started =>
            /\ opts.Parallel >= 1
            /\ Cardinality(InFlight) <= opts.Parallel
            /\ Cardinality({w \in Workers : wpc[w] # "none"}) = opts.Parallel
            /\ (Returned /\ stopCh = "open") =>
                 \A i \in JobIdx : recvLog[i] = 1 /\ StoredOnce(i) /\ hist[i] # << >>)
    /\ [][ (runPc = "init" /\ runPc' # "init") =>
             opts'.Parallel = (IF opts.Parallel < 1 THEN 1 ELSE opts.Parallel) ]_vars

\* One worker and more jobs than workers: the first job is in flight and
\* the producer waits with the second.
C25_Witness ==
    /\ Started
    /\ opts.Parallel = 1
    /\ N > opts.Parallel
    /\ InFlight = {0}
    /\ recvLog[1] = 0
    /\ prodPc = "parked"

C27_TimeoutClassification ==
    [][ \A w \in Workers :
          ( /\ qctx[w] = "expired"
            /\ wpc[w] \in {"exec", "backoff"}
            /\ writeLog'[wjob[w]] # writeLog[wjob[w]] ) =>
              /\ out'[wjob[w]] = QueryResult(ZeroResultSet, CtxErr)
              /\ out'[wjob[w]].Err \notin {ExecErr(o, a) : o \in {"transient", "permanent"},
                                                         a \in 0..MaxRetries} ]_vars

\* With the run context live, a job was stored with the deadline error
\* after an attempt that the backend failed with a permanent error.
C27_Witness ==
    /\ Started
    /\ runCtx = "live"
    /\ \E i \in JobIdx :
         /\ writeLog[i] # << >>
         /\ hist[i] = <<"permanent">>
         /\ out[i].Err = CtxErr

\* looksTransient has returned for the error it was called with.
TransientReturned == call.fn = "looksTransient" /\ ret.done

\* The message of the error contains a piece that is in the substring table.
HasTransientPiece(msg) ==
    \E k \in 0..MaxMsgParts : \E ls \in [1..k -> MsgLexemes] :
      /\ Concat(ls) = msg
      /\ \E j \in 1..k : ls[j] \in TransientLexemes

\* C28: for an error the backend classified, looksTransient is true exactly
\* when the classification is the transient one, whatever its message says;
\* the message decides only for an error without a classification, which is
\* transient exactly when the message holds a piece of the table.  So a
\* classified non-transient error saying "connection refused" is not
\* transient.
C28_ClassificationPrecedence ==
    TransientReturned =>
      LET err == call.err IN
      /\ err.neo4j => (ret.transient <=> err.classification = TransientError)
      /\ ~err.neo4j => (ret.transient <=> HasTransientPiece(err.msg))

\* looksTransient returned false for a client error of the backend whose
\* message contains "connection refused".
C28_Witness ==
    /\ TransientReturned
    /\ call.err.neo4j
    /\ call.err.classification = "ClientError"
    /\ Contains(call.err.msg, TransientSubstrings[1])
    /\ ~ret.transient

\* C29: the n-th backoff sleep of a job follows its n-th execution attempt,
\* a failed one, and lasts 200 ms times n: 200, 400, 600, ... without ever
\* starting again within the job.
C29_LinearBackoff ==
    Started =>
      \A i \in JobIdx :
        /\ Len(sleeps[i]) <= Len(hist[i])
        /\ \A n \in 1..Len(sleeps[i]) :
             /\ hist[i][n] = "transient"
             /\ sleeps[i][n] = 200 * n

\* A job has failed twice and has slept 200 ms and then 400 ms.
C29_Witness ==
    /\ Started
    /\ \E i \in JobIdx :
         /\ hist[i] = <<"transient", "transient">>
         /\ sleeps[i] = <<200, 400>>

\* Query i has its admission decision: it is marked skipped, or a job was
\* made for it.
Decided(i) ==
    \/ outs[i].Skipped
    \/ \E j \in 1..Len(jobToQueryIdx) : jobToQueryIdx[j] = i

\* C30: while main is in its admission loop Run has not started, so that
\* when Run has started every query has its skip/run decision and no job
\* had an execution attempt before; and no step changes the presence sets.
C30_AdmissionBeforeRun ==
    /\ [](mainPc # "none" =>
            /\ mainPc = "admit" => ~Started
            /\ Started => /\ mainIdx = Len(qs)
                          /\ \A i \in 0..(Len(qs) - 1) : Decided(i)
                          /\ Len(jobs) = Len(jobToQueryIdx))
    /\ [][presence' = presence]_vars

\* Run is executing the job of the second query after the first query was
\* skipped.
C30_Witness ==
    /\ mainPc = "run"
    /\ Started
    /\ Len(qs) = 2
    /\ outs[0].Skipped
    /\ jobToQueryIdx = <<1>>
    /\ \E w \in Workers : wpc[w] = "exec" /\ wjob[w] = 0

\* The group of a category in the output of Order: AD, EntraID, INFO in any
\* case, then every other category.
CategoryGroup(cat) ==
    IF cat \in {"AD", "ad"} THEN 1
    ELSE IF cat \in {"EntraID", "entraid"} THEN 2
    ELSE IF cat \in {"INFO", "info"} THEN 3
    ELSE 4

IsBaseline(q) == \E b \in 1..4 : q.ID = Baseline[b]

\* The position of the query with ID id in the list s.
PosOf(s, id) == CHOOSE k \in 1..Len(s) : s[k].ID = id

\* C31: the output of Order holds the queries of its input, the baseline
\* queries first; behind them the AD queries come before the EntraID
\* queries, these before the INFO queries, and the queries of any other
\* category last; and two queries of one group are in the order they had in
\* the input.
C31_GroupedByCategory ==
    OrderReturned =>
      LET in == call.in
          o == ret.out IN
      /\ Len(o) = Len(in)
      /\ {o[k] : k \in 1..Len(o)} = {in[k] : k \in 1..Len(in)}
      /\ \A p \in 1..Len(o), q \in 1..Len(o) :
           (p < q /\ ~IsBaseline(o[p])) =>
             /\ ~IsBaseline(o[q])
             /\ CategoryGroup(o[p].Category) <= CategoryGroup(o[q].Category)
             /\ CategoryGroup(o[p].Category) = CategoryGroup(o[q].Category) =>
                  PosOf(in, o[p].ID) < PosOf(in, o[q].ID)

\* Order was given every category out of order, the two AD queries and the
\* two EntraID queries apart from each other, and returned them grouped.
C31_Witness ==
    /\ OrderReturned
    /\ IDsOf(call.in) = <<"u", "z2", "y2", "x", "z", "y", "ad-domain-admins">>
    /\ IDsOf(ret.out) = <<"ad-domain-admins", "y2", "y", "z2", "z", "x", "u">>

FilterReturned == call.fn = "FilterCategoryStrict" /\ ret.done

\* The string s without the spaces at its ends.
Stripped(s) ==
    LET inked == {k \in 1..Len(s) : s[k] # " "} IN
    IF inked = {} THEN << >>
    ELSE SubSeq(s, MinOf(inked), CHOOSE b \in inked : \A k \in inked : k <= b)

\* The positions of the queries of list in whose category is w in any case,
\* w being written in lower case.
CategoryIdx(in, w) == {k \in 1..Len(in) : ToLower(in[k].Category) = w}

\* The j-th smallest element of the set S of numbers.
NthOf(S, j) == CHOOSE k \in S : Cardinality({m \in S : m < k}) = j - 1

\* The queries of category w of the list in, in input order.
OfCategory(in, w) ==
    [j \in 1..Cardinality(CategoryIdx(in, w)) |-> in[NthOf(CategoryIdx(in, w), j)]]

\* What FilterCategoryStrict has to return for the category c: the input
\* for nothing or all, the queries of a known category for that category,
\* and otherwise an error and no list.
FilteredFor(c) ==
    IF c = << >> \/ ToLower(c) = <<"a", "l", "l">>
    THEN ret.err = << >> /\ ~ret.isNil /\ ret.out = call.in
    ELSE IF ToLower(c) \in {<<"a", "d">>, <<"e", "n", "t", "r", "a", "i", "d">>,
                            <<"i", "n", "f", "o">>}
    THEN ret.err = << >> /\ ~ret.isNil /\ ret.out = OfCategory(call.in, ToLower(c))
    ELSE ret.err # << >> /\ ret.isNil /\ ret.out = << >>

\* C32 as stated: the category is taken as it was given, so that a category
\* with a space before or after it is none of all, AD, EntraID and INFO
\* and gets an error.
C32_FilterAsGiven == FilterReturned => FilteredFor(call.category)

\* C32: the category is taken without the white space at its ends: for
\* nothing or all in any case the input list is returned as it is, for AD,
\* EntraID or INFO in any case the queries of that category in any case, in
\* input order, and for anything else an error and no list.
C32_FilterTrimmed == FilterReturned => FilteredFor(Stripped(call.category))

\* The category " aD" selected the two AD queries, of either case, from a
\* list that begins with an INFO query.
C32_Witness ==
    /\ FilterReturned
    /\ call.category = <<" ", "a", "D">>
    /\ Len(call.in) = 3
    /\ call.in[1].ID = "x" /\ call.in[2].ID = "y2" /\ call.in[3].ID = "y"
    /\ IDsOf(ret.out) = <<"y2", "y">>

\* The jobs that a worker has received.
Dispatched == {i \in JobIdx : recvLog[i] > 0}

\* C33: at every moment the jobs received by workers are the first jobs of
\* the list, as many as the producer has handed over: job i + 1 is never
\* received before job i, also when the stop ends the dispatch early.
C33_DispatchPrefix ==
    Started =>
      /\ \A i \in Dispatched : \A j \in 0..(i - 1) : j \in Dispatched
      /\ Dispatched = 0..(prodIdx - 1)

\* Run has returned after a stop that ended the dispatch behind the first
\* job of two.
C33_Witness ==
    /\ Returned
    /\ stopCh = "closed"
    /\ N = 2
    /\ Dispatched = {0}

\* The producer goroutine has returned and no goroutine is left in a select.
GoroutinesDone ==
    /\ prodPc = "done"
    /\ jobsCh = "closed"
    /\ \A w \in Workers : wpc[w] \in {"none", "done"}

\* C34: a Run that has started returns and its producer goroutine ends too,
\* no goroutine staying in a send or a receive, for every job list, the
\* empty one included, every Parallel and Retries and either FailFast; and
\* jobsCh is closed once, by the producer as it ends.
C34_RunTerminates ==
    /\ Started ~> (Returned /\ GoroutinesDone)
    /\ [][ jobsCh' # jobsCh =>
             /\ jobsCh = "open" /\ jobsCh' = "closed"
             /\ prodPc = "closing" /\ prodPc' = "done" ]_vars
    /\ [][ prodPc = "done" => prodPc' = "done" ]_vars

\* Run has returned after a stop, with the producer ended and a job that
\* was never dispatched.
C34_Witness ==
    /\ Returned
    /\ GoroutinesDone
    /\ stopCh = "closed"
    /\ \E i \in JobIdx : recvLog[i] = 0

\* C35: stopCh is closed at most once: it changes only from open to closed,
\* in the step in which the Once runs; a later stop() of another failing
\* worker changes neither, and no close of the closed channel ever happens.
C35_StopIdempotent ==
    /\ [](stopCh \in {"open", "closed"})
    /\ [][ (stopCh' # stopCh \/ stopOnce' # stopOnce) =>
             /\ stopCh = "open" /\ stopCh' = "closed"
             /\ ~stopOnce /\ stopOnce' ]_vars
    /\ [][ stopCh = "closed" => stopCh' = "closed" ]_vars

\* Under FailFast two workers held a job each and both jobs failed: the
\* second stop found the channel closed.
C35_Witness ==
    /\ Started
    /\ opts.FailFast
    /\ opts.Parallel = 2
    /\ N = 2
    /\ \A i \in JobIdx : writeLog[i] # << >> /\ out[i].Err.kind # "nil"
    /\ stopCh = "closed"

\* A job gets its deadline when it is dispatched and at no other moment,
\* and an expired deadline stays expired until the job is stored: the
\* attempts and sleeps of a job share one deadline.
OneDeadlinePerJob ==
    \A w \in Workers :
      /\ (qctx'[w] = "live" /\ qctx[w] # "live") =>
           /\ wpc[w] \in {"select", "parked"}
           /\ wpc'[w] = "exec" /\ attempt'[w] = 0
      /\ (qctx[w] = "expired" /\ qctx'[w] # "expired") =>
           writeLog'[wjob[w]] # writeLog[wjob[w]]

\* C36 as stated: one deadline per job, and with the deadline expired the
\* worker starts no further call of exec for a job that had an attempt.
C36_NoAttemptAfterExpiry ==
    [][ /\ OneDeadlinePerJob
        /\ \A w \in Workers :
             (qctx[w] = "expired" /\ attempt[w] >= 1) =>
               ~(wpc[w] = "exec" /\ wpc'[w] = "running") ]_vars

\* C36: one deadline per job, shared by its attempts and sleeps; once it
\* has expired, the call of exec in progress or already due, or the sleep,
\* ends the job: what follows is the store of the context's error and no
\* backoff or later attempt.
C36_DeadlineCoversSequence ==
    [][ /\ OneDeadlinePerJob
        /\ \A w \in Workers :
             ( /\ qctx[w] = "expired"
               /\ wpc[w] \in {"running", "backoff"}
               /\ wpc'[w] # wpc[w] ) =>
                 /\ writeLog'[wjob[w]] # writeLog[wjob[w]]
                 /\ out'[wjob[w]].Err = CtxErr
                 /\ wjob'[w] = -1 ]_vars

\* With the run context live, a worker is inside a retry of its job whose
\* deadline has expired.
C36_Witness ==
    /\ Started
    /\ runCtx = "live"
    /\ \E w \in Workers :
         /\ wpc[w] = "running"
         /\ attempt[w] >= 1
         /\ qctx[w] = "expired"

\* C37: when a call of exec returns an error and the job's context, the
\* run's or the job's own, is done by then, execWithRetries returns the
\* context's error: the job is stored with it and an empty result set, no
\* backoff and no other attempt follows, and a non-transient error of the
\* attempt is not the error stored.
C37_CancellationFirst ==
    [][ \A w \in Workers :
          ( /\ wpc[w] = "running"
            /\ OwnCtxDone(w)
            /\ wpc'[w] # "running" ) =>
              LET i == wjob[w] IN
              /\ Len(hist'[i]) = Len(hist[i]) + 1
              /\ Last(hist'[i]) \in {"transient", "permanent"}
              /\ out'[i] = QueryResult(ZeroResultSet, CtxErr)
              /\ writeLog'[i] # writeLog[i]
              /\ sleeps'[i] = sleeps[i]
              /\ wpc'[w] \notin {"exec", "backoff"} ]_vars

\* After the run deadline a job whose only attempt failed with a
\* non-transient error is stored with the context's error.
C37_Witness ==
    /\ Started
    /\ runCtx = "done"
    /\ opts.PerQueryTimeout = 0
    /\ \E i \in JobIdx :
         /\ hist[i] = <<"permanent">>
         /\ writeLog[i] # << >>
         /\ out[i].Err = CtxErr

SummaryReturned == call.fn = "writeSummarySheet" /\ ret.done

\* The outputs of the call that got the status st.
WithStatus(st) == {k \in 1..Len(call.outs) : ret.status[k] = st}

\* C38: every output has one status, skipped if it is marked skipped,
\* else error if it has an error text, else empty if it has no rows, else
\* ok; each count of the totals row is the number of outputs of that status
\* and ok + empty + skipped + error is the number of outputs.
C38_CountsPartition ==
    SummaryReturned =>
      LET os == call.outs IN
      /\ Len(ret.status) = Len(os)
      /\ \A k \in 1..Len(os) :
           /\ ret.status[k] \in {"ok", "empty", "skipped", "error"}
           /\ ret.status[k] = "skipped" <=> os[k].Skipped
           /\ ret.status[k] = "error" <=> (~os[k].Skipped /\ os[k].Error # << >>)
           /\ ret.status[k] = "empty" <=>
                (~os[k].Skipped /\ os[k].Error = << >> /\ os[k].Result.Rows = 0)
      /\ ret.counts.ok = Cardinality(WithStatus("ok"))
      /\ ret.counts.empty = Cardinality(WithStatus("empty"))
      /\ ret.counts.skipped = Cardinality(WithStatus("skipped"))
      /\ ret.counts.error = Cardinality(WithStatus("error"))
      /\ ret.counts.ok + ret.counts.empty + ret.counts.skipped + ret.counts.error
           = ret.total
      /\ ret.total = Len(os)

\* Three outputs that meet more than one condition each: skipped with an
\* error text, an error without rows, and rows without an error.
C38_Witness ==
    /\ SummaryReturned
    /\ Len(call.outs) = 3
    /\ call.outs[1].Skipped /\ call.outs[1].Error # << >>
    /\ ~call.outs[2].Skipped /\ call.outs[2].Error # << >> /\ call.outs[2].Result.Rows = 0
    /\ ~call.outs[3].Skipped /\ call.outs[3].Error = << >> /\ call.outs[3].Result.Rows = 1
    /\ ret.status = <<"skipped", "error", "ok">>
    /\ ret.counts = [ok |-> 1, error |-> 1, skipped |-> 1, empty |-> 0]

-----------------------------------------------------------------------------
Next ==
    \/ RunStart
    \/ RunReturn
    \/ RunDeadline
    \/ ProducerSelect
    \/ ProducerClose
    \/ \E w \in Workers :
         \/ WorkerSelect(w)
         \/ WorkerExec(w)
         \/ BackoffTimer(w)
         \/ BackoffCancel(w)
         \/ JobTimeout(w)

\* Run is called directly, as by its tests: there is no main.
MainNone ==
    /\ qs = << >>
    /\ presence = [Labels |-> {}, Rels |-> {}]
    /\ schemaSkip = FALSE
    /\ mainPc = "none"
    /\ mainIdx = 0
    /\ outs = << >>
    /\ jobToQueryIdx = << >>

CallNone == call = [fn |-> "none"] /\ ret = [done |-> FALSE]

Init == InitWith(0..MaxJobs, 0..MaxParallel, (-1)..MaxPoolRetries) /\ MainNone /\ CallNone

Spec == Init /\ [][Next]_vars

\* Scheduling: the Go scheduler runs every goroutine that can take a step,
\* every call of exec returns, and a timer that was started fires.  Nothing
\* makes a deadline elapse.
Fairness ==
    /\ WF_vars(RunReturn)
    /\ WF_vars(ProducerSelect \/ ProducerClose)
    /\ \A w \in Workers :
         WF_vars(WorkerSelect(w) \/ WorkerExec(w) \/ BackoffTimer(w) \/ BackoffCancel(w))

\* The runs whose termination is checked: every pool without per-job
\* deadlines, and one worker with two jobs under every retry count, with
\* and without per-job deadlines.
InitLive ==
    /\ \/ InitWith(0..MaxJobs, 0..MaxParallel, {0}) /\ opts.PerQueryTimeout = 0
       \/ InitWith({2}, {1}, (-1)..MaxRetries)
    /\ MainNone
    /\ CallNone

SpecLive == InitLive /\ [][Next]_vars /\ Fairness

\* One worker, two jobs, every retry count: the attempt sequences in full.
InitRetry == InitWith({2}, {1}, (-1)..MaxRetries) /\ MainNone /\ CallNone

SpecRetry == InitRetry /\ [][Next]_vars

\* The same runs in the finer grain: the call of exec and its return are
\* two steps.
NextFine ==
    \/ RunStart
    \/ RunReturn
    \/ RunDeadline
    \/ ProducerSelect
    \/ ProducerClose
    \/ \E w \in Workers :
         \/ WorkerSelect(w)
         \/ ExecCall(w)
         \/ ExecReturn(w)
         \/ BackoffTimer(w)
         \/ BackoffCancel(w)
         \/ JobTimeout(w)

SpecFine == InitRetry /\ [][NextFine]_vars

\* The largest pool, every job under its own deadline, no retry: the jobs
\* of one run against each other's timeouts.
InitTimeout ==
    /\ InitWith({MaxJobs}, {MaxParallel}, {0})
    /\ opts.PerQueryTimeout = 1
    /\ MainNone
    /\ CallNone

SpecTimeout == InitTimeout /\ [][Next]_vars

\* Runs of MaxJobs jobs with any Parallel option, values below 1 included,
\* without retries.
InitParallel == InitWith({MaxJobs}, (-1)..MaxParallel, {0}) /\ MainNone /\ CallNone

SpecParallel == InitParallel /\ [][Next]_vars

\* Neither Run nor main: the state around a call of a single function.
RunNone ==
    /\ InitWith({0}, {1}, {0})
    /\ ~opts.FailFast
    /\ opts.PerQueryTimeout = 0

\* The query texts of at most n characters.
Texts(n) == UNION {[1..k -> Chars] : k \in 0..n}

\* The lower-case names a schema can hold, and the schemas.
SchemaNames == {<<"l">>, <<"r">>}

Presences == [Labels : SUBSET SchemaNames, Rels : SUBSET SchemaNames]

\* CanRunCypher on every text of at most MaxTextLen characters and every
\* schema.
InitCanRun ==
    /\ RunNone
    /\ MainNone
    /\ call \in [fn : {"CanRunCypher"}, cypher : Texts(MaxTextLen), p : Presences]
    /\ ret = [done |-> FALSE]

NextCanRun == CallCanRunCypher

SpecCanRun == InitCanRun /\ [][NextCanRun]_vars

\* The texts of the queries of a run: a label, a relationship type followed
\* by a label, and no reference at all.
MainTexts == {<<"(", ":", "L">>, <<"[", ":", "r", "(", ":", "L">>, <<"(">>}

MainPresences == [Labels : SUBSET {<<"l">>}, Rels : SUBSET {<<"r">>}]

\* main at the admission loop (main.go:249-253), one worker, no retry.
InitMain ==
    /\ InitWith({0}, {1}, {0})
    /\ \E n \in 0..MaxQueries : \E ts \in [1..n -> MainTexts] : qs = QueryList(ts)
    /\ presence \in MainPresences
    /\ schemaSkip \in BOOLEAN
    /\ mainPc = "admit"
    /\ mainIdx = 0
    /\ outs = [i \in 0..(Len(qs) - 1) |-> ZeroOutput]
    /\ jobToQueryIdx = << >>
    /\ CallNone

NextMain ==
    \/ MainAdmit
    \/ MainMerge
    \/ Next

SpecMain == InitMain /\ [][NextMain]_vars

\* The queries given to Order, those of TestOrder: the four baseline queries
\* and one more of each category; IDs are unique in the registry.
OrderQueries ==
    {[ID |-> "ad-all-users-samaccountname", Category |-> "AD"],
     [ID |-> "ad-all-computers-fqdn", Category |-> "AD"],
     [ID |-> "ad-domain-admins", Category |-> "AD"],
     [ID |-> "ad-domain-controllers", Category |-> "AD"],
     [ID |-> "x", Category |-> "INFO"],
     [ID |-> "y", Category |-> "AD"],
     [ID |-> "z", Category |-> "EntraID"]}

\* The sequences of at most n elements of S, none twice.
RECURSIVE InjSeqs(_, _)
InjSeqs(S, n) ==
    IF n = 0 THEN {<< >>}
    ELSE {<< >>} \cup UNION {{<<x>> \o t : t \in InjSeqs(S \ {x}, n - 1)} : x \in S}

InitOrder ==
    /\ RunNone
    /\ MainNone
    /\ call \in [fn : {"Order"}, in : InjSeqs(OrderQueries, MaxOrderLen)]
    /\ ret = [done |-> FALSE]

NextOrder == CallOrder

SpecOrder == InitOrder /\ [][NextOrder]_vars

\* Queries of every category for Order: one baseline query, two queries of
\* a category, a category written in lower case and a category that catRank
\* does not know.
OrderCatQueries ==
    {[ID |-> "ad-domain-admins", Category |-> "AD"],
     [ID |-> "y", Category |-> "AD"],
     [ID |-> "y2", Category |-> "AD"],
     [ID |-> "z", Category |-> "EntraID"],
     [ID |-> "z2", Category |-> "entraid"],
     [ID |-> "x", Category |-> "INFO"],
     [ID |-> "u", Category |-> "misc"]}

InitOrderCat ==
    /\ RunNone
    /\ MainNone
    /\ call \in [fn : {"Order"}, in : InjSeqs(OrderCatQueries, MaxOrderLen)]
    /\ ret = [done |-> FALSE]

SpecOrderCat == InitOrderCat /\ [][NextOrder]_vars

\* The lexemes of the texts given to ExecCypher: white space, a query body,
\* the LIMIT keyword in either case, an identifier that ends in "limit", and
\* a number.
ExecLexemes ==
    {<<" ">>, <<"r">>, <<"L", "I", "M", "I", "T">>, <<"l", "i", "m", "i", "t">>,
     <<"x", "l", "i", "m", "i", "t">>, <<"1">>}

ExecTexts == {Concat(ls) : ls \in UNION {[1..k -> ExecLexemes] : k \in 0..MaxLexemes}}

InitExec ==
    /\ RunNone
    /\ MainNone
    /\ call \in [fn : {"ExecCypher"}, cypher : ExecTexts, limit : 0..MaxLimit,
                 matches : 0..MaxMatches]
    /\ ret = [done |-> FALSE]

NextExec == CallExecCypher

SpecExec == InitExec /\ [][NextExec]_vars

\* The messages given to looksTransient: pieces of driver and network error
\* texts, some of them in the table, in either case.
Msgs == {Concat(ls) : ls \in UNION {[1..k -> MsgLexemes] : k \in 0..MaxMsgParts}}

\* The errors: those the backend classified, with any message, and those
\* without a classification.
Classifications == {TransientError, "ClientError", "DatabaseError"}

Errors ==
    [neo4j : {TRUE}, classification : Classifications, msg : Msgs]
      \cup [neo4j : {FALSE}, classification : {""}, msg : Msgs]

InitTransient ==
    /\ RunNone
    /\ MainNone
    /\ call \in [fn : {"looksTransient"}, err : Errors]
    /\ ret = [done |-> FALSE]

NextTransient == CallLooksTransient

SpecTransient == InitTransient /\ [][NextTransient]_vars

\* The queries given to FilterCategoryStrict: one of each category, and a
\* second AD query whose category is written in lower case.
FilterQueries ==
    {[ID |-> "y", Category |-> <<"A", "D">>], [ID |-> "y2", Category |-> <<"a", "d">>],
     [ID |-> "z", Category |-> <<"E", "n", "t", "r", "a", "I", "D">>], [ID |-> "x", Category |-> <<"I", "N", "F", "O">>]}

\* The words of the --category values: nothing, all, the three categories in
\* several cases, and two words that are no category.
CategoryWords ==
    {<< >>,
     <<"a", "l", "l">>,
     <<"A", "L", "L">>,
     <<"A", "l", "l">>,
     <<"A", "D">>,
     <<"a", "d">>,
     <<"a", "D">>,
     <<"E", "n", "t", "r", "a", "I", "D">>,
     <<"e", "n", "t", "r", "a", "i", "d">>,
     <<"I", "N", "F", "O">>,
     <<"I", "n", "f", "o">>,
     <<"m", "i", "s", "c">>,
     <<"A", "D", "s">>}

\* At most MaxPad spaces.
Pads == {[k \in 1..n |-> " "] : n \in 0..MaxPad}

\* The --category values: a word with spaces around it.
CategoryArgs == {a \o w \o b : a \in Pads, w \in CategoryWords, b \in Pads}

InitFilter ==
    /\ RunNone
    /\ MainNone
    /\ call \in [fn : {"FilterCategoryStrict"},
                 in : UNION {[1..n -> FilterQueries] : n \in 0..MaxFilterLen},
                 category : CategoryArgs]
    /\ ret = [done |-> FALSE]

NextFilter == CallFilterCategoryStrict

SpecFilter == InitFilter /\ [][NextFilter]_vars

\* The outputs given to writeSummarySheet: skipped or not, with or without
\* an error text, with or without rows.
SummaryOutputs ==
    {[ZeroOutput EXCEPT !.Skipped = sk, !.Error = e, !.Result = rs] :
       sk \in BOOLEAN, e \in {<< >>, ErrorText(ExecErr("permanent", 0))},
       rs \in ExecResultSets}

InitSummary ==
    /\ RunNone
    /\ MainNone
    /\ call \in [fn : {"writeSummarySheet"},
                 outs : UNION {[1..n -> SummaryOutputs] : n \in 0..MaxSummaryLen}]
    /\ ret = [done |-> FALSE]

NextSummary == CallWriteSummarySheet

SpecSummary == InitSummary /\ [][NextSummary]_vars

====
